---- MODULE Spec2Model ----
(***************************************************************************)
(* A model of the reference walk engine, the reference mutation            *)
(* operations and the status-check report workflow of gitness.             *)
(*                                                                         *)
(* Three independent subsystems share the module; each has its own         *)
(* specification, which holds the variables of the other two fixed:        *)
(*   SpecWalk / SpecWalkFair   Adapter.WalkReferences                       *)
(*   SpecRef                   Adapter.GetRef / Adapter.UpdateRef           *)
(*   SpecReport                Controller.Report / ReportInput.Validate     *)
(***************************************************************************)
EXTENDS Integers, Sequences, FiniteSets, TLC

VARIABLES
    \* ---- walk engine --------------------------------------------------
    opts,        \* the caller-owned *types.WalkReferencesOptions value
    opts0,       \* that value as the caller set it before the call
    numRefs,     \* N: the references of the repository that match
    wpc,         \* position of the consumer (the caller's goroutine)
    i,           \* loop counter of walkGiteaReferenceParser
    cur,         \* the record parser.Next() returned last
    instrLog,    \* instructor invocations: <<[rec, ins]>>
    handlerLog,  \* handler invocations: <<[rec, res]>>
    walkErr,     \* what WalkReferences returned ("pending" until it returns)
    ppc,         \* position of the producer goroutine
    emitted,     \* records the producer has handed to pipeIn.Write
    prodExit,    \* how the for-each-ref command ended
    pipeBuf,     \* data of the Write that is blocked in the io.Pipe
    wclosed,     \* write side of the pipe: "open" | "eof" | "err"
    rclosed,     \* read side of the pipe closed
    pbuf,        \* records read by the parser's scanner, not yet returned
    perr,        \* parser.Err(): "none" | "parse" | "producer"
    \* ---- reference store and its clients ------------------------------
    refs,        \* the repository's references: physical path -> value
    client,      \* each client's calls of GetRef / UpdateRef and results
    \* ---- status-check reports ----------------------------------------
    checks,      \* the rows of the check store
    clock,       \* the wall clock, in milliseconds
    rep,         \* each caller's Report call: position, arguments, result
    \* ---- ReportInput.Validate on its own ------------------------------
    valpc,       \* "ready" | "validated" | "revalidated" ("idle" elsewhere)
    valIn,       \* the *ReportInput as the caller filled it
    valRes,      \* Validate's error and the input as Validate left it
    valAgain,    \* the same for a second Validate of the validated input
    \* ---- sha.SHA values and their encodings ---------------------------
    shapc,       \* "ready" | "built" | "encoded" | "decoded" ("idle" elsewhere)
    shaSrc,      \* where the value comes from: New(raw), Nil or None
    shaVal,      \* the SHA value (its str) and New's error
    wire,        \* the encoded bytes: [codec, len, data]
    tampered,    \* the bytes were replaced after encoding
    shaDec       \* the SHA value the decoder filled and its error

walkVars == <<opts, opts0, numRefs, wpc, i, cur, instrLog, handlerLog, walkErr,
              ppc, emitted, prodExit, pipeBuf, wclosed, rclosed, pbuf, perr>>

refVars == <<refs, client>>

reportVars == <<checks, clock, rep>>

validateVars == <<valpc, valIn, valRes, valAgain>>

shaVars == <<shapc, shaSrc, shaVal, wire, tampered, shaDec>>

notWalkVars == <<refVars, reportVars, validateVars, shaVars>>

notRefVars == <<walkVars, reportVars, validateVars, shaVars>>

notReportVars == <<walkVars, refVars, validateVars, shaVars>>

notValidateVars == <<walkVars, refVars, reportVars, shaVars>>

notShaVars == <<walkVars, refVars, reportVars, validateVars>>

vars == <<walkVars, refVars, reportVars, validateVars, shaVars>>

(***************************************************************************)
(* Bounds of the model.                                                    *)
(***************************************************************************)
MaxRefs == 3     \* references in the repository
MaxChunk == 2    \* records one Write into the pipe may carry

\* math.MaxInt32
MaxInt32 == 2147483647

Min(a, b) == IF a < b THEN a ELSE b

(***************************************************************************)
(* Walk options as the caller passes them.  "" / 0 / "nil" is unset.       *)
(***************************************************************************)
WalkOptionPresets ==
    { [Instructor |-> ins, Fields |-> f, MaxWalkDistance |-> m,
       Patterns |-> p, Sort |-> s] :
        ins \in {"nil", "custom"}, m \in 0..MaxRefs,
        f \in {"unset"}, p \in {"nil"}, s \in {""} }
    \cup
    { [Instructor |-> "custom", Fields |-> "set", MaxWalkDistance |-> m,
       Patterns |-> "set", Sort |-> "date"] : m \in {0, 1} }

\* DefaultInstructor: handle every record.
DefaultInstructor == {"Handle"}

\* What an instructor may answer for a record ("Err": it returns an error).
InstructorAnswers(o) ==
    IF o.Instructor = "DefaultInstructor"
    THEN DefaultInstructor
    ELSE {"Handle", "Skip", "Stop", "Err"}

\* Back-fill of the optional options, written into the value opts points to.
BackfillDropsMaxDistance(o) ==
    [ Instructor      |-> IF o.Instructor = "nil" THEN "DefaultInstructor"
                          ELSE o.Instructor,
      Fields          |-> IF o.Fields = "unset" THEN "refname,objectname"
                          ELSE o.Fields,
      MaxWalkDistance |-> MaxInt32,
      Patterns        |-> IF o.Patterns = "nil" THEN "empty" ELSE o.Patterns,
      Sort            |-> IF o.Sort = "" THEN "refname" ELSE o.Sort ]

BackfillOptions(o) ==
    [ Instructor      |-> IF o.Instructor = "nil" THEN "DefaultInstructor"
                          ELSE o.Instructor,
      Fields          |-> IF o.Fields = "unset" THEN "refname,objectname"
                          ELSE o.Fields,
      MaxWalkDistance |-> IF o.MaxWalkDistance <= 0 THEN MaxInt32
                          ELSE o.MaxWalkDistance,
      Patterns        |-> IF o.Patterns = "nil" THEN "empty" ELSE o.Patterns,
      Sort            |-> IF o.Sort = "" THEN "refname" ELSE o.Sort ]

WalkInit ==
    /\ opts \in WalkOptionPresets
    /\ opts0 = opts
    /\ numRefs \in 0..MaxRefs
    /\ wpc = "start"
    /\ i = 0
    /\ cur = 0
    /\ instrLog = <<>>
    /\ handlerLog = <<>>
    /\ walkErr = "pending"
    /\ ppc = "idle"
    /\ emitted = 0
    /\ prodExit = "none"
    /\ pipeBuf = <<>>
    /\ wclosed = "open"
    /\ rclosed = FALSE
    /\ pbuf = <<>>
    /\ perr = "none"

\* No walk is running (the state the other specifications keep).
WalkIdle ==
    /\ opts = [Instructor |-> "nil", Fields |-> "unset",
               MaxWalkDistance |-> 0, Patterns |-> "nil", Sort |-> ""]
    /\ opts0 = opts
    /\ numRefs = 0
    /\ wpc = "idle"
    /\ i = 0
    /\ cur = 0
    /\ instrLog = <<>>
    /\ handlerLog = <<>>
    /\ walkErr = "pending"
    /\ ppc = "idle"
    /\ emitted = 0
    /\ prodExit = "none"
    /\ pipeBuf = <<>>
    /\ wclosed = "open"
    /\ rclosed = FALSE
    /\ pbuf = <<>>
    /\ perr = "none"

(***************************************************************************)
(* The consumer: WalkReferences and walkGiteaReferenceParser.              *)
(***************************************************************************)

\* WalkReferences up to the call of walkGiteaReferenceParser: back-fill the
\* options, create the pipe, start the producer goroutine.
WalkReferences ==
    /\ wpc = "start"
    /\ opts' = BackfillOptions(opts)
    /\ ppc' = "run"
    /\ wpc' = "loop"
    /\ UNCHANGED <<numRefs, i, cur, instrLog, handlerLog, walkErr, emitted,
                   prodExit, pipeBuf, wclosed, rclosed, pbuf, perr>>
    /\ UNCHANGED <<opts0, notWalkVars>>

\* The loop condition i < opts.MaxWalkDistance.
LoopContinues == i < opts.MaxWalkDistance

\* Loop exit by the loop condition.
LoopExhausted ==
    /\ wpc = "loop"
    /\ ~LoopContinues
    /\ wpc' = "finalize"
    /\ UNCHANGED <<opts, numRefs, i, cur, instrLog, handlerLog, walkErr, ppc,
                   emitted, prodExit, pipeBuf, wclosed, rclosed, pbuf, perr>>
    /\ UNCHANGED <<opts0, notWalkVars>>

\* parser.Next() with a record in the scanner's buffer.
NextTakesNewestFirst ==
    /\ wpc = "loop"
    /\ LoopContinues
    /\ pbuf # <<>>
    /\ pbuf' = SubSeq(pbuf, 1, Len(pbuf) - 1)
    /\ IF pbuf[Len(pbuf)].ok
       THEN cur' = pbuf[Len(pbuf)].id /\ wpc' = "instruct" /\ perr' = perr
       ELSE cur' = cur /\ wpc' = "finalize" /\ perr' = "parse"
    /\ UNCHANGED <<opts, numRefs, i, instrLog, handlerLog, walkErr, ppc,
                   emitted, prodExit, pipeBuf, wclosed, rclosed>>
    /\ UNCHANGED <<opts0, notWalkVars>>

NextFromBuffer ==
    /\ wpc = "loop"
    /\ LoopContinues
    /\ pbuf # <<>>
    /\ pbuf' = Tail(pbuf)
    /\ IF Head(pbuf).ok
       THEN cur' = Head(pbuf).id /\ wpc' = "instruct" /\ perr' = perr
       ELSE cur' = cur /\ wpc' = "finalize" /\ perr' = "parse"
    /\ UNCHANGED <<opts, numRefs, i, instrLog, handlerLog, walkErr, ppc,
                   emitted, prodExit, pipeBuf, wclosed, rclosed>>
    /\ UNCHANGED <<opts0, notWalkVars>>

\* parser.Next() with an empty buffer: the scanner reads from pipeOut.  A
\* Read takes part or all of the blocked Write's data; the Write returns
\* when all of it is taken.
NextReadsPipe ==
    /\ wpc = "loop"
    /\ LoopContinues
    /\ pbuf = <<>>
    /\ pipeBuf # <<>>
    /\ \E n \in 1..Len(pipeBuf) :
        /\ pbuf' = SubSeq(pipeBuf, 1, n)
        /\ pipeBuf' = SubSeq(pipeBuf, n + 1, Len(pipeBuf))
    /\ UNCHANGED <<opts, numRefs, wpc, i, cur, instrLog, handlerLog, walkErr,
                   ppc, emitted, prodExit, wclosed, rclosed, perr>>
    /\ UNCHANGED <<opts0, notWalkVars>>

\* parser.Next() at the end of the stream: nil, and the scanner keeps the
\* error the producer closed the pipe with, if any.
NextAtEnd ==
    /\ wpc = "loop"
    /\ LoopContinues
    /\ pbuf = <<>>
    /\ pipeBuf = <<>>
    /\ wclosed # "open"
    /\ perr' = IF wclosed = "err" THEN "producer" ELSE perr
    /\ wpc' = "finalize"
    /\ UNCHANGED <<opts, numRefs, i, cur, instrLog, handlerLog, walkErr, ppc,
                   emitted, prodExit, pipeBuf, wclosed, rclosed, pbuf>>
    /\ UNCHANGED <<opts0, notWalkVars>>

\* Where the loop goes after the instructor's answer.
StopMisreadAsHandle(ins) ==
    CASE ins = "Skip" -> "loop"
      [] ins = "Err"  -> "return"
      [] OTHER        -> "handle"

SkipMisreadAsStop(ins) ==
    CASE ins \in {"Skip", "Stop"} -> "finalize"
      [] ins = "Err"  -> "return"
      [] OTHER        -> "handle"

StopMisreadAsSkip(ins) ==
    CASE ins \in {"Skip", "Stop"} -> "loop"
      [] ins = "Err"  -> "return"
      [] OTHER        -> "handle"

AfterInstruction(ins) ==
    CASE ins = "Skip" -> "loop"
      [] ins = "Stop" -> "finalize"
      [] ins = "Err"  -> "return"
      [] OTHER        -> "handle"

\* mapGiteaRawRef succeeded; the instructor is asked about the record.
Instruct ==
    /\ wpc = "instruct"
    /\ \E ins \in InstructorAnswers(opts) :
        /\ instrLog' = Append(instrLog, [rec |-> cur, ins |-> ins])
        /\ wpc' = AfterInstruction(ins)
        /\ i' = IF ins = "Skip" THEN i + 1 ELSE i
        /\ walkErr' = IF ins = "Err" THEN "instructor" ELSE walkErr
    /\ UNCHANGED <<opts, numRefs, cur, handlerLog, ppc, emitted, prodExit,
                   pipeBuf, wclosed, rclosed, pbuf, perr>>
    /\ UNCHANGED <<opts0, notWalkVars>>

\* mapGiteaRawRef fails on a field it does not know: the walk returns.
MapRawRefFails ==
    /\ wpc = "instruct"
    /\ opts.Fields = "set"
    /\ walkErr' = "map"
    /\ wpc' = "return"
    /\ UNCHANGED <<opts, numRefs, i, cur, instrLog, handlerLog, ppc, emitted,
                   prodExit, pipeBuf, wclosed, rclosed, pbuf, perr>>
    /\ UNCHANGED <<opts0, notWalkVars>>

\* Where the loop goes after the handler's result.
HandlerErrorIgnored(res) == "loop"

AfterHandler(res) == IF res = "ok" THEN "loop" ELSE "return"

\* The handler is called with the record.
Handle ==
    /\ wpc = "handle"
    /\ \E res \in {"ok", "err"} :
        /\ handlerLog' = Append(handlerLog, [rec |-> cur, res |-> res])
        /\ wpc' = AfterHandler(res)
        /\ i' = IF AfterHandler(res) = "loop" THEN i + 1 ELSE i
        /\ walkErr' = IF AfterHandler(res) = "return" THEN "handler"
                      ELSE walkErr
    /\ UNCHANGED <<opts, numRefs, cur, instrLog, ppc, emitted, prodExit,
                   pipeBuf, wclosed, rclosed, pbuf, perr>>
    /\ UNCHANGED <<opts0, notWalkVars>>

\* processGiteaErrorf(err, format): the error named by the message, with
\* err as its cause.
processGiteaErrorf(err, format) == [class |-> format, cause |-> err]

\* The error value WalkReferences returns for each way the walk can end.
WalkError(cause) ==
    CASE cause = "instructor" ->
            [class |-> "error getting instruction", cause |-> cause]
      [] cause = "handler" ->
            [class |-> "error handling reference", cause |-> cause]
      [] cause = "map" ->
            [class |-> "mapGiteaRawRef", cause |-> cause]
      [] cause \in {"parse", "producer"} ->
            processGiteaErrorf(cause, "failed to parse reference walk output")
      [] OTHER -> [class |-> "nil", cause |-> cause]

\* After the loop: parser.Err() decides the result.
Finalize ==
    /\ wpc = "finalize"
    /\ walkErr' = IF perr = "none" THEN "nil" ELSE perr
    /\ wpc' = "return"
    /\ UNCHANGED <<opts, numRefs, i, cur, instrLog, handlerLog, ppc, emitted,
                   prodExit, pipeBuf, wclosed, rclosed, pbuf, perr>>
    /\ UNCHANGED <<opts0, notWalkVars>>

\* The deferred pipeIn.Close() and pipeOut.Close().
CloseForgotten ==
    UNCHANGED <<wclosed, rclosed>>

DeferredClose ==
    /\ wclosed' = IF wclosed = "open" THEN "eof" ELSE wclosed
    /\ rclosed' = TRUE

\* WalkReferences returns: the deferred calls run.
Return ==
    /\ wpc = "return"
    /\ DeferredClose
    /\ wpc' = "done"
    /\ UNCHANGED <<opts, numRefs, i, cur, instrLog, handlerLog, walkErr, ppc,
                   emitted, prodExit, pipeBuf, pbuf, perr>>
    /\ UNCHANGED <<opts0, notWalkVars>>

(***************************************************************************)
(* The producer: the goroutine running git for-each-ref --count <max>.    *)
(***************************************************************************)

\* Records for-each-ref prints: at most --count of the matching references.
ToEmit == Min(numRefs, opts.MaxWalkDistance)

PipeBroken == rclosed \/ wclosed # "open"

\* A Write of the next records begins; it blocks until they are read.  A
\* record may be malformed (the parser cannot parse it).
ProducerWrite ==
    /\ ppc = "run"
    /\ ~PipeBroken
    /\ emitted < ToEmit
    /\ \E n \in 1..Min(MaxChunk, ToEmit - emitted), good \in BOOLEAN :
        /\ pipeBuf' = [k \in 1..n |->
                         [id |-> emitted + k, ok |-> (k < n) \/ good]]
        /\ emitted' = emitted + n
    /\ ppc' = "writing"
    /\ UNCHANGED <<opts, numRefs, wpc, i, cur, instrLog, handlerLog, walkErr,
                   prodExit, wclosed, rclosed, pbuf, perr>>
    /\ UNCHANGED <<opts0, notWalkVars>>

\* The blocked Write returns: all its data was read.
ProducerWritten ==
    /\ ppc = "writing"
    /\ pipeBuf = <<>>
    /\ ppc' = "run"
    /\ UNCHANGED <<opts, numRefs, wpc, i, cur, instrLog, handlerLog, walkErr,
                   emitted, prodExit, pipeBuf, wclosed, rclosed, pbuf, perr>>
    /\ UNCHANGED <<opts0, notWalkVars>>

\* A Write on a closed pipe fails: the command ends with an error, and the
\* goroutine's CloseWithError finds the pipe closed already.
ProducerBrokenPipe ==
    /\ ppc \in {"run", "writing"}
    /\ PipeBroken
    /\ ppc = "run" => emitted < ToEmit
    /\ ppc' = "done"
    /\ prodExit' = "brokenpipe"
    /\ pipeBuf' = <<>>
    /\ UNCHANGED <<opts, numRefs, wpc, i, cur, instrLog, handlerLog, walkErr,
                   emitted, wclosed, rclosed, pbuf, perr>>
    /\ UNCHANGED <<opts0, notWalkVars>>

\* The command printed everything and exits 0: pipeIn.Close().
ProducerExits ==
    /\ ppc = "run"
    /\ emitted = ToEmit
    /\ ppc' = "done"
    /\ prodExit' = "ok"
    /\ wclosed' = IF wclosed = "open" THEN "eof" ELSE wclosed
    /\ UNCHANGED <<opts, numRefs, wpc, i, cur, instrLog, handlerLog, walkErr,
                   emitted, pipeBuf, rclosed, pbuf, perr>>
    /\ UNCHANGED <<opts0, notWalkVars>>

\* The command fails (non-zero exit): pipeIn.CloseWithError(err + stderr).
ProducerFailsClosingCleanly ==
    /\ ppc = "run"
    /\ ~PipeBroken
    /\ ppc' = "done"
    /\ prodExit' = "failed"
    /\ wclosed' = "eof"
    /\ UNCHANGED <<opts, numRefs, wpc, i, cur, instrLog, handlerLog, walkErr,
                   emitted, pipeBuf, rclosed, pbuf, perr>>
    /\ UNCHANGED <<opts0, notWalkVars>>

ProducerFails ==
    /\ ppc = "run"
    /\ ~PipeBroken
    /\ ppc' = "done"
    /\ prodExit' = "failed"
    /\ wclosed' = "err"
    /\ UNCHANGED <<opts, numRefs, wpc, i, cur, instrLog, handlerLog, walkErr,
                   emitted, pipeBuf, rclosed, pbuf, perr>>
    /\ UNCHANGED <<opts0, notWalkVars>>

Consumer ==
    \/ WalkReferences
    \/ LoopExhausted
    \/ NextFromBuffer
    \/ NextReadsPipe
    \/ NextAtEnd
    \/ Instruct
    \/ MapRawRefFails
    \/ Handle
    \/ Finalize
    \/ Return

Producer ==
    \/ ProducerWrite
    \/ ProducerWritten
    \/ ProducerBrokenPipe
    \/ ProducerExits
    \/ ProducerFails

WalkNext == Consumer \/ Producer


(***************************************************************************)
(* Reference mutation operations: getRef, GetRef, UpdateRef, and the git   *)
(* commands they run.                                                      *)
(***************************************************************************)

\* gitea.BranchPrefix, gitea.TagPrefix and the constants of getRef.
BranchPrefix == "refs/heads/"
TagPrefix == "refs/tags/"
refPullReqPrefix == "refs/pullreq/"
refPullReqHeadSuffix == "/head"
refPullReqMergeSuffix == "/merge"

\* getRef: the physical path of a logical reference.
getRefTagAsBranch(refName, refType) ==
    CASE refType = "raw"           -> [path |-> refName, err |-> "nil"]
      [] refType \in {"branch", "tag"}
                                   -> [path |-> BranchPrefix \o refName,
                                       err |-> "nil"]
      [] refType = "pullreq-head"  -> [path |-> refPullReqPrefix \o refName
                                                \o refPullReqHeadSuffix,
                                       err |-> "nil"]
      [] refType = "pullreq-merge" -> [path |-> refPullReqPrefix \o refName
                                                \o refPullReqMergeSuffix,
                                       err |-> "nil"]
      [] OTHER                     -> [path |-> "",
                                       err |-> "ErrInvalidArgument"]

getRef(refName, refType) ==
    CASE refType = "raw"           -> [path |-> refName, err |-> "nil"]
      [] refType = "branch"        -> [path |-> BranchPrefix \o refName,
                                       err |-> "nil"]
      [] refType = "tag"           -> [path |-> TagPrefix \o refName,
                                       err |-> "nil"]
      [] refType = "pullreq-head"  -> [path |-> refPullReqPrefix \o refName
                                                \o refPullReqHeadSuffix,
                                       err |-> "nil"]
      [] refType = "pullreq-merge" -> [path |-> refPullReqPrefix \o refName
                                                \o refPullReqMergeSuffix,
                                       err |-> "nil"]
      [] OTHER                     -> [path |-> "",
                                       err |-> "ErrInvalidArgument"]

\* The logical references the clients name.
RefTargets ==
    { [name |-> "refs/heads/main", type |-> "raw"],
      [name |-> "main", type |-> "branch"],
      [name |-> "main", type |-> "tag"],
      [name |-> "1", type |-> "pullreq-head"],
      [name |-> "1", type |-> "pullreq-merge"],
      [name |-> "main", type |-> "undefined"] }

\* The physical paths of the repository.
RefPaths ==
    { getRef(t.name, t.type).path : t \in { u \in RefTargets : u.type # "undefined" } }

\* Object ids of commits that exist in the repository.
Oids == {"a", "b"}

\* The value of a path in the store; "" when the reference does not exist.
StoreValue(store, path) == IF path \in DOMAIN store THEN store[path] ELSE ""

\* How a git command may fail for reasons of its own: not at all, by dying
\* (exit code 128, e.g. the directory is no repository), or otherwise.
Faults == {"none", "exit128", "other"}

\* git show-ref --verify -s -- <path>
GitShowRef(store, path, fault) ==
    CASE fault = "exit128" ->
            [exit |-> 128, stdout |-> "", stderr |-> "not a git repository"]
      [] fault = "other" ->
            [exit |-> 1, stdout |-> "", stderr |-> ""]
      [] OTHER ->
            IF StoreValue(store, path) = ""
            THEN [exit |-> 128, stdout |-> "", stderr |-> "not a valid ref"]
            ELSE [exit |-> 0, stdout |-> StoreValue(store, path),
                  stderr |-> ""]

\* git update-ref <path> <new> [<old>]: with <old>, the reference is set
\* only if its value is <old>; the command dies (128) otherwise.
GitUpdateRef(store, args, fault) ==
    LET path == args[2]
        new  == args[3]
    IN  CASE fault = "exit128" -> [exit |-> 128, store |-> store]
          [] fault = "other"   -> [exit |-> 1, store |-> store]
          [] OTHER ->
                IF Len(args) = 4 /\ StoreValue(store, path) # args[4]
                THEN [exit |-> 128, store |-> store]
                ELSE [exit |-> 0,
                      store |-> [q \in DOMAIN store \cup {path} |->
                                    IF q = path THEN new ELSE store[q]]]

\* Adapter.GetRef
GetRefEvery128NotFound(store, refName, refType, fault) ==
    LET r == getRef(refName, refType)
        out == GitShowRef(store, r.path, fault)
    IN  IF r.err # "nil" THEN [val |-> "", err |-> r.err]
        ELSE IF out.exit # 0
             THEN IF out.exit = 128
                  THEN [val |-> "", err |-> "ErrNotFound"]
                  ELSE [val |-> "", err |-> "CommandError"]
             ELSE [val |-> out.stdout, err |-> "nil"]

GetRef(store, refName, refType, fault) ==
    LET r == getRef(refName, refType)
        out == GitShowRef(store, r.path, fault)
    IN  IF r.err # "nil" THEN [val |-> "", err |-> r.err]
        ELSE IF out.exit # 0
             THEN IF out.exit = 128 /\ out.stderr = "not a valid ref"
                  THEN [val |-> "", err |-> "ErrNotFound"]
                  ELSE [val |-> "", err |-> "CommandError"]
             ELSE [val |-> out.stdout, err |-> "nil"]

\* The arguments of the update-ref command.
UpdateRefArgsWithoutOld(path, newValue, oldValue) ==
    <<"update-ref", path, newValue>>

UpdateRefArgsAlwaysOld(path, newValue, oldValue) ==
    <<"update-ref", path, newValue, oldValue>>

UpdateRefArgs(path, newValue, oldValue) ==
    IF oldValue # ""
    THEN <<"update-ref", path, newValue, oldValue>>
    ELSE <<"update-ref", path, newValue>>

\* Adapter.UpdateRef: its error, the store after it, and the commands it
\* ran.
UpdateRefRetrying(store, refName, refType, newValue, oldValue, fault) ==
    LET r == getRef(refName, refType)
        args == UpdateRefArgs(r.path, newValue, oldValue)
        out == GitUpdateRef(store, args, fault)
        again == GitUpdateRef(out.store, args, fault)
    IN  IF r.err # "nil"
        THEN [err |-> r.err, store |-> store, cmds |-> <<>>]
        ELSE IF out.exit = 0
        THEN [err |-> "nil", store |-> out.store, cmds |-> <<args>>]
        ELSE [err |-> IF again.exit = 0 THEN "nil"
                      ELSE IF again.exit = 128 THEN "ErrNotFound"
                      ELSE "CommandError",
              store |-> again.store, cmds |-> <<args, args>>]

UpdateRefErrorAfterWrite(store, refName, refType, newValue, oldValue, fault) ==
    LET r == getRef(refName, refType)
        args == UpdateRefArgs(r.path, newValue, oldValue)
        out == GitUpdateRef(store, args, fault)
        forced == GitUpdateRef(store, UpdateRefArgs(r.path, newValue, ""),
                               "none")
    IN  IF r.err # "nil"
        THEN [err |-> r.err, store |-> store, cmds |-> <<>>]
        ELSE IF out.exit # 0
             THEN IF out.exit = 128
                  THEN [err |-> "ErrNotFound", store |-> forced.store,
                        cmds |-> <<args>>]
                  ELSE [err |-> "CommandError", store |-> forced.store,
                        cmds |-> <<args>>]
             ELSE [err |-> "nil", store |-> out.store, cmds |-> <<args>>]

UpdateRef(store, refName, refType, newValue, oldValue, fault) ==
    LET r == getRef(refName, refType)
        args == UpdateRefArgs(r.path, newValue, oldValue)
        out == GitUpdateRef(store, args, fault)
    IN  IF r.err # "nil"
        THEN [err |-> r.err, store |-> store, cmds |-> <<>>]
        ELSE IF out.exit # 0
             THEN IF out.exit = 128
                  THEN [err |-> "ErrNotFound", store |-> out.store,
                        cmds |-> <<args>>]
                  ELSE [err |-> "CommandError", store |-> out.store,
                        cmds |-> <<args>>]
             ELSE [err |-> "nil", store |-> out.store, cmds |-> <<args>>]

\* The commands Adapter.GetRef runs.
GetRefCommands(refName, refType) ==
    LET r == getRef(refName, refType)
    IN  IF r.err # "nil" THEN <<>>
        ELSE <<(<<"show-ref", "--verify", "-s", "--", r.path>>)>>

\* The clients of the store: concurrent callers, each of which may resolve
\* a reference and then update it.
Clients == {"w1", "w2"}

NoCall ==
    [pc |-> "idle", name |-> "", type |-> "", obs |-> [val |-> "", err |-> "none"],
     new |-> "", old |-> "", fault |-> "none", err |-> "none",
     cmds |-> <<>>]

RefInit ==
    /\ refs = [p \in RefPaths |->
                 IF p \in {"refs/heads/main", "refs/tags/main"} THEN "a"
                 ELSE ""]
    /\ client = [w \in Clients |-> NoCall]

RefIdle ==
    /\ refs = [p \in RefPaths |-> ""]
    /\ client = [w \in Clients |-> NoCall]

\* Client w calls GetRef.
Resolve(w) ==
    /\ client[w].pc = "idle"
    /\ \E t \in RefTargets, f \in Faults :
        client' = [client EXCEPT ![w] =
                     [@ EXCEPT !.pc = "observed", !.name = t.name,
                               !.type = t.type, !.fault = f,
                               !.cmds = GetRefCommands(t.name, t.type),
                               !.obs = GetRef(refs, t.name, t.type, f)]]
    /\ UNCHANGED <<refs, notRefVars>>

\* Client w calls UpdateRef: on the reference it resolved, or on any.
Update(w) ==
    /\ client[w].pc \in {"idle", "observed"}
    /\ \E t \in RefTargets, new \in Oids, old \in Oids \cup {""},
          f \in Faults :
        /\ client[w].pc = "observed"
              => t = [name |-> client[w].name, type |-> client[w].type]
        /\ LET r == UpdateRef(refs, t.name, t.type, new, old, f)
           IN  /\ refs' = r.store
               /\ client' = [client EXCEPT ![w] =
                               [@ EXCEPT !.pc = "done", !.name = t.name,
                                         !.type = t.type, !.new = new,
                                         !.old = old, !.fault = f,
                                         !.cmds = r.cmds,
                                         !.err = r.err]]
    /\ UNCHANGED notRefVars

RefNext == \E w \in Clients : Resolve(w) \/ Update(w)

(***************************************************************************)
(* Commit identities: sha.New and its regular expression.  Strings are     *)
(* sequences of one-character strings.                                     *)
(***************************************************************************)

\* validSHARegex = ^[0-9a-f]{4,64}$
ShaMinLen == 4
ShaMaxLen == 64

HexDigits ==
    {"0", "1", "2", "3", "4", "5", "6", "7", "8", "9",
     "a", "b", "c", "d", "e", "f"}

UpperCase ==
    <<"A", "B", "C", "D", "E", "F", "G", "H", "I", "J", "K", "L", "M",
      "N", "O", "P", "Q", "R", "S", "T", "U", "V", "W", "X", "Y", "Z">>

LowerCase ==
    <<"a", "b", "c", "d", "e", "f", "g", "h", "i", "j", "k", "l", "m",
      "n", "o", "p", "q", "r", "s", "t", "u", "v", "w", "x", "y", "z">>

Letters == {UpperCase[k] : k \in 1..26} \cup {LowerCase[k] : k \in 1..26}

WhiteSpace == {" ", "\t", "\n", "\r"}

\* strings.ToLower
ToLowerChar(c) ==
    IF \E k \in 1..26 : UpperCase[k] = c
    THEN LowerCase[CHOOSE k \in 1..26 : UpperCase[k] = c]
    ELSE c

ToLower(str) == [k \in 1..Len(str) |-> ToLowerChar(str[k])]

\* strings.TrimSpace
TrimSpace(str) ==
    LET keep == {k \in 1..Len(str) : str[k] \notin WhiteSpace}
    IN  IF keep = {} THEN <<>>
        ELSE SubSeq(str, CHOOSE k \in keep : \A j \in keep : k <= j,
                         CHOOSE k \in keep : \A j \in keep : k >= j)

\* validSHARegex.MatchString
MatchValidSHA(str) ==
    /\ Len(str) >= ShaMinLen
    /\ Len(str) <= ShaMaxLen
    /\ \A k \in 1..Len(str) : str[k] \in HexDigits

\* sha.New: the normalized string, or an error and the zero value.
NewWithoutTrim(value) ==
    LET v == ToLower(value)
    IN  IF MatchValidSHA(v) THEN [str |-> v, err |-> "nil"]
        ELSE [str |-> <<>>, err |-> "invalid argument"]

New(value) ==
    LET v == ToLower(TrimSpace(value))
    IN  IF MatchValidSHA(v) THEN [str |-> v, err |-> "nil"]
        ELSE [str |-> <<>>, err |-> "invalid argument"]

\* Must: New, with a panic on error (only used on valid literals).
Must(value) == New(value)

\* A string of n zeros.
Zeros(n) == [k \in 1..n |-> "0"]

\* sha.Nil = Must("0000000000000000000000000000000000000000")
NilLen == 40

Nil == Must(Zeros(NilLen))

\* sha.None = SHA{}
None == [str |-> <<>>, err |-> "nil"]

\* nilRegex.MatchString, SHA.IsNil
IsNilAnyLength(sha) == \A k \in 1..Len(sha.str) : sha.str[k] = "0"

IsNil(sha) ==
    /\ Len(sha.str) >= ShaMinLen
    /\ Len(sha.str) <= ShaMaxLen
    /\ \A k \in 1..Len(sha.str) : sha.str[k] = "0"

\* SHA.IsEmpty
IsEmpty(sha) == sha.str = <<>>

\* SHA.Equal
Equal(a, b) == a.str = b.str

\* SHA.String
String(sha) == sha.str

\* json.Marshal of a string: quotes around the escaped characters.
JSONEscape(c) ==
    CASE c = "\n" -> <<"\\", "n">>
      [] c = "\t" -> <<"\\", "t">>
      [] c = "\r" -> <<"\\", "r">>
      [] c = "\"" -> <<"\\", "\"">>
      [] c = "\\" -> <<"\\", "\\">>
      [] OTHER    -> <<c>>

JSONEscaped == {"\n", "\t", "\r", "\"", "\\"}

\* The escaped characters of a string, one after the other.
JSONEscapeAll(str) ==
    LET start(k) == k + Cardinality({m \in 1..(k - 1) : str[m] \in JSONEscaped})
        total == Len(str) + Cardinality({m \in 1..Len(str) : str[m] \in JSONEscaped})
        at(j) == CHOOSE k \in 1..Len(str) :
                    start(k) <= j /\ j < start(k) + Len(JSONEscape(str[k]))
    IN  [j \in 1..total |-> JSONEscape(str[at(j)])[j - start(at(j)) + 1]]

JSONMarshalString(str) == <<"\"">> \o JSONEscapeAll(str) \o <<"\"">>

\* json.Unmarshal into a string: the characters between the quotes,
\* unescaped; a syntax error for anything else.
JSONUnescape(c) ==
    CASE c = "n" -> "\n"
      [] c = "t" -> "\t"
      [] c = "r" -> "\r"
      [] OTHER   -> c

\* The characters of a JSON string's body: a backslash after an even run
\* of backslashes introduces an escape, and the character after it is the
\* escaped one.
JSONBody(chars) ==
    LET run(j) == LET stops == {m \in 1..(j - 1) : chars[m] # "\\"}
                  IN  (j - 1) - (IF stops = {} THEN 0
                                 ELSE CHOOSE m \in stops : \A n \in stops : n <= m)
        intro(j) == chars[j] = "\\" /\ run(j) % 2 = 0
        escaped(j) == j > 1 /\ intro(j - 1)
        kept == {j \in 1..Len(chars) : ~intro(j)}
        nth(n) == CHOOSE j \in kept : Cardinality({m \in kept : m < j}) = n - 1
        bad(j) ==
            \/ intro(j) /\ j = Len(chars)
            \/ escaped(j) /\ chars[j] \notin {"n", "t", "r", "\"", "\\"}
            \/ ~intro(j) /\ ~escaped(j) /\ chars[j] \in {"\"", "\n", "\t", "\r"}
    IN  IF \E j \in 1..Len(chars) : bad(j)
        THEN [str |-> <<>>, ok |-> FALSE]
        ELSE [str |-> [n \in 1..Cardinality(kept) |->
                          IF escaped(nth(n)) THEN JSONUnescape(chars[nth(n)])
                          ELSE chars[nth(n)]],
              ok |-> TRUE]

JSONUnmarshalString(data) ==
    IF Len(data) < 2 \/ data[1] # "\"" \/ data[Len(data)] # "\""
    THEN [str |-> <<>>, ok |-> FALSE]
    ELSE LET body == JSONBody(SubSeq(data, 2, Len(data) - 1))
         IN  IF body.ok THEN body ELSE [str |-> <<>>, ok |-> FALSE]

\* SHA.MarshalJSON
MarshalJSON(sha) ==
    [codec |-> "json", len |-> 0, data |-> JSONMarshalString(sha.str)]

\* SHA.UnmarshalJSON, into a zero SHA: the string goes through New.
UnmarshalJSON(data) ==
    LET str == JSONUnmarshalString(data.data)
    IN  IF ~str.ok THEN [str |-> <<>>, err |-> "json syntax"]
        ELSE New(str.str)

\* gob's encoding of a string: the byte count, then the bytes.
GobEncodeString(str) == [codec |-> "gob", len |-> Len(str), data |-> str]

GobDecodeString(data) ==
    IF data.len = Len(data.data)
    THEN [str |-> data.data, ok |-> TRUE]
    ELSE [str |-> <<>>, ok |-> FALSE]

\* SHA.GobEncode
GobEncode(sha) == GobEncodeString(sha.str)

\* SHA.GobDecode, into a zero SHA: the string is stored as it is.
GobDecode(data) ==
    LET str == GobDecodeString(data)
    IN  IF ~str.ok
        THEN [str |-> <<>>, err |-> "failed to unpack sha value"]
        ELSE [str |-> str.str, err |-> "nil"]

(***************************************************************************)
(* ReportInput.Validate.                                                   *)
(***************************************************************************)

\* regexpCheckUID = ^[a-zA-Z_][0-9a-zA-Z-_.$]{0,127}$
MaxUIDTail == 127

Digits == {"0", "1", "2", "3", "4", "5", "6", "7", "8", "9"}

\* matcherCheckUID.MatchString
MatchCheckUIDOneShort(uid) ==
    /\ Len(uid) >= 1
    /\ Len(uid) <= MaxUIDTail
    /\ uid[1] \in Letters \cup {"_"}
    /\ \A k \in 2..Len(uid) :
          uid[k] \in Letters \cup Digits \cup {"-", "_", ".", "$"}

MatchCheckUID(uid) ==
    /\ Len(uid) >= 1
    /\ Len(uid) <= 1 + MaxUIDTail
    /\ uid[1] \in Letters \cup {"_"}
    /\ \A k \in 2..Len(uid) :
          uid[k] \in Letters \cup Digits \cup {"-", "_", ".", "$"}

\* enum.CheckStatus.Sanitize: the allowed value a status stands for.
CheckStatusSanitize(status) ==
    CASE status \in {"pending", "running", "success", "failure", "error"}
            -> [val |-> status, ok |-> TRUE]
      [] status = "SUCCESS" -> [val |-> "success", ok |-> TRUE]
      [] OTHER -> [val |-> "", ok |-> FALSE]

\* enum.CheckPayloadKind.Sanitize: external is the default kind.
CheckPayloadKindSanitize(kind) ==
    CASE kind \in {"external", "markdown"} -> [val |-> kind, ok |-> TRUE]
      [] kind = ""         -> [val |-> "external", ok |-> TRUE]
      [] kind = "EXTERNAL" -> [val |-> "external", ok |-> TRUE]
      [] OTHER -> [val |-> "external", ok |-> FALSE]

BadRequest(msg) == [class |-> "BadRequest", msg |-> msg]

NoError == [class |-> "nil", msg |-> ""]

\* The payload of an external check carries nothing: version and data are
\* cleared.
PayloadKept(in) == in

ClearExternalPayloadAndLink(in) ==
    [in EXCEPT !.Payload.Version = "", !.Payload.Data = "{}", !.Link = ""]

ClearExternalPayload(in) ==
    [in EXCEPT !.Payload.Version = "", !.Payload.Data = "{}"]

\* Validate: the error it returns and the input as it leaves it.
Validate(in) ==
    LET kind == CheckPayloadKindSanitize(in.Payload.Kind)
        in1 == [in EXCEPT !.Payload.Kind = kind.val]
        in2 == IF in1.Payload.Kind = "external"
               THEN ClearExternalPayload(in1)
               ELSE in1
    IN  IF in.CheckUID = <<>>
        THEN [err |-> BadRequest("Status check UID is missing"), in |-> in]
        ELSE IF ~MatchCheckUID(in.CheckUID)
        THEN [err |-> BadRequest("Status check UID must match the regular expression"),
              in |-> in]
        ELSE IF ~CheckStatusSanitize(in.Status).ok
        THEN [err |-> BadRequest("Invalid value provided for status check status"),
              in |-> in]
        ELSE IF ~kind.ok
        THEN [err |-> BadRequest("Invalid value provided for the payload type"),
              in |-> in]
        ELSE IF in1.Payload.Kind = "external" /\ in.Link = ""
        THEN [err |-> BadRequest("Link is missing"), in |-> in2]
        ELSE [err |-> NoError, in |-> in2]

(***************************************************************************)
(* Controller.Report and its collaborators.                                *)
(***************************************************************************)

UIDGood == <<"c", "i", "-", "1">>
UIDBad == <<"1", "c", "i">>

SHAGood == <<"a", "b", "1", "2">>
SHAMissing == <<"d", "e", "a", "d">>
SHABad == <<"x", "y", "z">>

\* The inputs callers report with.
ReportInputs ==
    { [CheckUID |-> uid, Status |-> "success", Summary |-> "ok",
       Link |-> link,
       Payload |-> [Kind |-> "external", Version |-> "v1", Data |-> "blob"]] :
        uid \in {UIDGood, UIDBad}, link \in {"", "http://ci"} }
    \cup
    { [CheckUID |-> UIDGood, Status |-> st, Summary |-> "ok",
       Link |-> "",
       Payload |-> [Kind |-> "markdown", Version |-> "v1", Data |-> "blob"]] :
        st \in {"failure", "bogus"} }
    \cup
    { [CheckUID |-> uid, Status |-> "SUCCESS", Summary |-> "ok",
       Link |-> "http://ci",
       Payload |-> [Kind |-> kind, Version |-> "", Data |-> "{}"]] :
        uid \in {UIDGood, <<>>}, kind \in {"", "bogus"} }

\* The commits of the repository.
ExistingCommits == {SHAGood}

\* getRepoCheckAccess: the repository, or the authorization error.
getRepoCheckAccess(auth) ==
    IF auth = "granted" THEN NoError
    ELSE [class |-> "AccessDenied", msg |-> "failed to acquire access to repo"]

\* The error check after getRepoCheckAccess.
AccessErrorIgnored(err) == FALSE

AccessFailed(err) == err.class # "nil"

\* gitrpc.ValidateCommitSHA: the format of a commit SHA.
ValidateCommitSHA(commitSHA) == New(commitSHA).err = "nil"

\* The SHA check of Report.
SHACheckSkipped(commitSHA) == FALSE

SHARejected(commitSHA) == ~ValidateCommitSHA(commitSHA)

\* gitRPCClient.GetCommit
GetCommit(commitSHA) ==
    IF commitSHA \in ExistingCommits THEN NoError
    ELSE [class |-> "NotFound", msg |-> "failed to commit sha"]

\* The error check after GetCommit.
LookupErrorIgnored(err) == FALSE

LookupFailed(err) == err.class # "nil"

\* Report from its entry to the SHA check: what it returns, if it returns
\* there, what it has done, and the input as it leaves it.
ReportEntry(auth, in, commitSHA) ==
    LET access == getRepoCheckAccess(auth)
        v == Validate(in)
    IN  IF AccessFailed(access)
        THEN [err |-> access, in |-> in, trace |-> <<"authorize">>]
        ELSE IF v.err.class # "nil"
        THEN [err |-> v.err, in |-> v.in,
              trace |-> <<"authorize", "validate">>]
        ELSE IF SHARejected(commitSHA)
        THEN [err |-> BadRequest("invalid commit SHA provided"), in |-> v.in,
              trace |-> <<"authorize", "validate", "checksha">>]
        ELSE [err |-> NoError, in |-> v.in,
              trace |-> <<"authorize", "validate", "checksha">>]

\* The record Report builds.
CheckWithStaleUpdated(c, in, commitSHA, now) ==
    [RepoID |-> "repo", CommitSHA |-> commitSHA, UID |-> in.CheckUID,
     CreatedBy |-> c, Created |-> now, Updated |-> 0,
     Status |-> in.Status, Summary |-> in.Summary, Link |-> in.Link,
     Payload |-> in.Payload]

NewCheck(c, in, commitSHA, now) ==
    [RepoID |-> "repo", CommitSHA |-> commitSHA, UID |-> in.CheckUID,
     CreatedBy |-> c, Created |-> now, Updated |-> now,
     Status |-> in.Status, Summary |-> in.Summary, Link |-> in.Link,
     Payload |-> in.Payload]

CheckKey(row) == <<row.RepoID, row.CommitSHA, row.UID>>

\* checkStore.Upsert: insert, or overwrite the row of the same key keeping
\* what was set at its creation.  Returns the rows and the persisted row.
Upsert(rows, row) ==
    IF \E r \in rows : CheckKey(r) = CheckKey(row)
    THEN LET old == CHOOSE r \in rows : CheckKey(r) = CheckKey(row)
             new == [row EXCEPT !.Created = old.Created,
                                !.CreatedBy = old.CreatedBy]
         IN  [rows |-> {r \in rows : CheckKey(r) # CheckKey(row)} \cup {new},
              row |-> new]
    ELSE [rows |-> rows \cup {row}, row |-> row]

Callers == {"r1", "r2"}

MaxClock == 3

NoReport ==
    [pc |-> "idle", auth |-> "", in0 |-> "none", in |-> "none",
     sha |-> <<>>, trace |-> <<>>, now |-> 0, err |-> NoError,
     check |-> "none", after |-> {}, seq |-> 0]

ReportInit ==
    /\ checks = {}
    /\ clock = 1
    /\ rep = [c \in Callers |-> NoReport]

ReportIdle ==
    /\ checks = {}
    /\ clock = 0
    /\ rep = [c \in Callers |-> NoReport]

\* Time passes.
Tick ==
    /\ clock < MaxClock
    /\ clock' = clock + 1
    /\ UNCHANGED <<checks, rep, notReportVars>>

\* Caller c calls Report: authorization, Validate and the SHA check.
ReportCall(c) ==
    /\ rep[c].pc = "idle"
    /\ \E auth \in {"granted", "denied"}, in \in ReportInputs,
          sha \in {SHAGood, SHAMissing, SHABad} :
        LET e == ReportEntry(auth, in, sha)
        IN  rep' = [rep EXCEPT ![c] =
                      [@ EXCEPT !.pc = IF e.err.class = "nil"
                                       THEN "getcommit" ELSE "done",
                                !.auth = auth, !.in0 = in, !.in = e.in,
                                !.sha = sha, !.trace = e.trace,
                                !.err = e.err,
                                !.after = {d \in Callers :
                                             rep[d].pc = "done"}]]
    /\ UNCHANGED <<checks, clock, notReportVars>>

\* The commit lookup in the backend.
ReportGetCommit(c) ==
    /\ rep[c].pc = "getcommit"
    /\ LET err == GetCommit(rep[c].sha)
       IN  rep' = [rep EXCEPT ![c] =
                     [@ EXCEPT !.trace = Append(@, "getcommit"),
                               !.pc = IF LookupFailed(err) THEN "done"
                                      ELSE "build",
                               !.err = IF LookupFailed(err) THEN err
                                       ELSE NoError]]
    /\ UNCHANGED <<checks, clock, notReportVars>>

\* now := time.Now().UnixMilli(), and the record is built.
ReportBuild(c) ==
    /\ rep[c].pc = "build"
    /\ rep' = [rep EXCEPT ![c] =
                 [@ EXCEPT !.pc = "upsert", !.now = clock,
                           !.check = NewCheck(c, rep[c].in, rep[c].sha,
                                              clock)]]
    /\ UNCHANGED <<checks, clock, notReportVars>>

\* checkStore.Upsert succeeds or fails, and Report returns.
ReportUpsert(c) ==
    /\ rep[c].pc = "upsert"
    /\ \E ok \in BOOLEAN :
        LET u == Upsert(checks, rep[c].check)
            n == Cardinality({d \in Callers : rep[d].seq > 0})
        IN  IF ok
            THEN /\ checks' = u.rows
                 /\ rep' = [rep EXCEPT ![c] =
                              [@ EXCEPT !.pc = "done",
                                        !.trace = Append(@, "upsert"),
                                        !.check = u.row, !.seq = n + 1]]
            ELSE /\ checks' = checks
                 /\ rep' = [rep EXCEPT ![c] =
                              [@ EXCEPT !.pc = "done",
                                        !.trace = Append(@, "upsert"),
                                        !.check = "none",
                                        !.err = [class |-> "Internal",
                                                 msg |-> "failed to upsert status check result"]]]
    /\ UNCHANGED <<clock, notReportVars>>

ReportNext ==
    \/ Tick
    \/ \E c \in Callers :
          ReportCall(c) \/ ReportGetCommit(c) \/ ReportBuild(c) \/ ReportUpsert(c)

(***************************************************************************)
(* ReportInput.Validate applied to inputs of every shape.                  *)
(***************************************************************************)

\* A check UID of n characters of the allowed shape.
UIDOfLen(n) == [k \in 1..n |-> "a"]

UIDLongest == UIDOfLen(1 + MaxUIDTail)

UIDTooLong == UIDOfLen(2 + MaxUIDTail)

\* A UID of the longest allowed length whose first character is a digit.
UIDLongestBadStart == [k \in 1..(1 + MaxUIDTail) |-> IF k = 1 THEN "9" ELSE "a"]

ValidateUIDs ==
    { <<>>, <<"a">>, <<"_">>, <<"Z", "9">>, UIDGood, UIDBad,
      <<"_", "a", "9", "-", "_", ".", "$">>,
      <<"-", "a">>, <<"$">>, <<"a", " ">>, <<"a", "/", "b">>, <<"a", "\n">>,
      UIDLongest, UIDTooLong, UIDLongestBadStart }

ValidateStatuses == {"success", "SUCCESS", "pending", "bogus", ""}

ValidateKinds == {"", "external", "EXTERNAL", "markdown", "bogus"}

\* The inputs Validate is applied to.
ValidateInputs ==
    { [CheckUID |-> uid, Status |-> st, Summary |-> "ok", Link |-> link,
       Payload |-> [Kind |-> kind, Version |-> pl.version,
                    Data |-> pl.data]] :
        uid \in ValidateUIDs, st \in ValidateStatuses,
        kind \in ValidateKinds, link \in {"", "http://ci"},
        pl \in { [version |-> "v1", data |-> "blob"],
                 [version |-> "", data |-> "{}"] } }

NoResult == [err |-> [class |-> "none", msg |-> ""], in |-> <<>>]

ValidateInit ==
    /\ valpc = "ready"
    /\ valIn \in ValidateInputs
    /\ valRes = NoResult
    /\ valAgain = NoResult

ValidateIdle ==
    /\ valpc = "idle"
    /\ valIn = <<>>
    /\ valRes = NoResult
    /\ valAgain = NoResult

\* in.Validate() on the caller's input.
ValidateCall ==
    /\ valpc = "ready"
    /\ valRes' = Validate(valIn)
    /\ valpc' = "validated"
    /\ UNCHANGED <<valIn, valAgain, notValidateVars>>

\* in.Validate() once more, on the input the first call accepted.
ValidateAgain ==
    /\ valpc = "validated"
    /\ valRes.err = NoError
    /\ valAgain' = Validate(valRes.in)
    /\ valpc' = "revalidated"
    /\ UNCHANGED <<valIn, valRes, notValidateVars>>

ValidateNext == ValidateCall \/ ValidateAgain

(***************************************************************************)
(* SHA values: construction, encoding and decoding.                        *)
(***************************************************************************)

\* A string of n characters c.
Repeat(c, n) == [k \in 1..n |-> c]

\* The strings New is called with, and the strings put into stored bytes.
ShaRaws ==
    { <<>>, <<" ">>,
      Zeros(3), Zeros(ShaMinLen), Zeros(NilLen), Zeros(ShaMaxLen),
      Zeros(ShaMaxLen + 1),
      <<"a", "b", "c">>, <<"a", "b", "c", "d">>, <<"A", "B", "C", "D">>,
      <<" ", "a", "b", "c", "d", "\n">>, <<"\t", "D", "E", "A", "D", " ">>,
      <<"a", "b", " ", "c", "d">>, <<"a", "b", "c", "g">>,
      <<"x", "y", "z">>, <<"0", "0", "a", "0">>, <<"0", "0", "0", "O">>,
      <<"1", "2", "3", "4", "5">>, <<"a", "b", "c", "d", "\"">>,
      Repeat("f", ShaMaxLen), Repeat("f", ShaMaxLen + 1) }

ShaSources ==
    { [kind |-> "New", raw |-> raw] : raw \in ShaRaws }
    \cup { [kind |-> "Nil", raw |-> <<>>], [kind |-> "None", raw |-> <<>>] }

NoWire == [codec |-> "none", len |-> 0, data |-> <<>>]

NoSHA == [str |-> <<>>, err |-> "none"]

ShaInit ==
    /\ shapc = "ready"
    /\ shaSrc \in ShaSources
    /\ shaVal = NoSHA
    /\ wire = NoWire
    /\ tampered = FALSE
    /\ shaDec = NoSHA

ShaIdle ==
    /\ shapc = "idle"
    /\ shaSrc = [kind |-> "None", raw |-> <<>>]
    /\ shaVal = NoSHA
    /\ wire = NoWire
    /\ tampered = FALSE
    /\ shaDec = NoSHA

\* The value is made: by New, or it is one of the package's values.
Construct ==
    /\ shapc = "ready"
    /\ shaVal' = CASE shaSrc.kind = "New" -> New(shaSrc.raw)
                   [] shaSrc.kind = "Nil" -> Nil
                   [] OTHER               -> None
    /\ shapc' = "built"
    /\ UNCHANGED <<shaSrc, wire, tampered, shaDec, notShaVars>>

\* A value the program holds is encoded, as JSON or as gob.
Encode ==
    /\ shapc = "built"
    /\ shaVal.err = "nil"
    /\ \E codec \in {"json", "gob"} :
          wire' = IF codec = "json" THEN MarshalJSON(shaVal)
                  ELSE GobEncode(shaVal)
    /\ shapc' = "encoded"
    /\ UNCHANGED <<shaSrc, shaVal, tampered, shaDec, notShaVars>>

\* The stored bytes are replaced: by a well-formed encoding of another
\* string, or by bytes with a broken frame.
Tamper ==
    /\ shapc = "encoded"
    /\ ~tampered
    /\ \/ \E str \in ShaRaws :
            wire' = IF wire.codec = "json"
                    THEN [wire EXCEPT !.data = JSONMarshalString(str)]
                    ELSE GobEncodeString(str)
       \/ wire' = IF wire.codec = "json"
                  THEN [wire EXCEPT !.data = SubSeq(@, 1, Len(@) - 1)]
                  ELSE [wire EXCEPT !.len = @ + 1]
    /\ tampered' = TRUE
    /\ UNCHANGED <<shapc, shaSrc, shaVal, shaDec, notShaVars>>

\* The bytes are decoded into a zero SHA.
Decode ==
    /\ shapc = "encoded"
    /\ shaDec' = IF wire.codec = "json" THEN UnmarshalJSON(wire)
                 ELSE GobDecode(wire)
    /\ shapc' = "decoded"
    /\ UNCHANGED <<shaSrc, shaVal, wire, tampered, notShaVars>>

ShaNext == Construct \/ Encode \/ Tamper \/ Decode

(***************************************************************************)
(* The specifications.                                                     *)
(***************************************************************************)
InitWalk == WalkInit /\ RefIdle /\ ReportIdle /\ ValidateIdle /\ ShaIdle

SpecWalk == InitWalk /\ [][WalkNext]_vars

\* The producer goroutine and the command it runs are scheduled; the caller
\* keeps running until WalkReferences returns.
SpecWalkFair == SpecWalk /\ WF_vars(Producer) /\ WF_vars(Consumer)

InitRef == WalkIdle /\ RefInit /\ ReportIdle /\ ValidateIdle /\ ShaIdle

SpecRef == InitRef /\ [][RefNext]_vars

InitReport == WalkIdle /\ RefIdle /\ ReportInit /\ ValidateIdle /\ ShaIdle

SpecReport == InitReport /\ [][ReportNext]_vars

InitValidate == WalkIdle /\ RefIdle /\ ReportIdle /\ ValidateInit /\ ShaIdle

SpecValidate == InitValidate /\ [][ValidateNext]_vars

InitSha == WalkIdle /\ RefIdle /\ ReportIdle /\ ValidateIdle /\ ShaInit

SpecSha == InitSha /\ [][ShaNext]_vars

(***************************************************************************)
(* Properties of the walk engine.                                          *)
(***************************************************************************)

\* The instructor answered Handle for the first k records and Stop for the
\* next one.
HandleThenStop(k) ==
    /\ Len(instrLog) > k
    /\ instrLog[k + 1].ins = "Stop"
    /\ \A j \in 1..k : instrLog[j].ins = "Handle"

\* C1: in a walk over N references whose instructor answers Handle for the
\* first k records and Stop after the k-th (k < N), once the walk has
\* returned the handler has been invoked exactly k times, on those k
\* records, and the walk returned no error.
C1_StopAfterKHandlesK ==
    \A k \in 0..(numRefs - 1) :
        ( /\ wpc = "done"
          /\ HandleThenStop(k)
          /\ \A j \in 1..Len(handlerLog) : handlerLog[j].res = "ok" )
        => /\ Len(handlerLog) = k
           /\ \A j \in 1..k : handlerLog[j].rec = instrLog[j].rec
           /\ walkErr = "nil"

\* A walk over 3 references that handled 2 and was then stopped.
C1_Witness ==
    /\ wpc = "done"
    /\ numRefs = 3
    /\ HandleThenStop(2)
    /\ Len(handlerLog) = 2
    /\ walkErr = "nil"

\* C4: once WalkReferences has returned, however its loop ended, the
\* producer goroutine terminates: it is not left running or blocked in a
\* Write into the pipe.
C4_ProducerReleased == (wpc = "done") ~> (ppc = "done")

\* The walk has returned while the producer is blocked in a Write whose
\* data nobody will read.
C4_Witness ==
    /\ wpc = "done"
    /\ ppc = "writing"
    /\ pipeBuf # <<>>

\* C10: when the handler returns an error on a record, that is the last
\* handler invocation and the last instructor invocation of the walk, and
\* the walk returns the handler's error.
C10_HandlerErrorEndsWalk ==
    \A j \in 1..Len(handlerLog) :
        handlerLog[j].res = "err"
        => /\ j = Len(handlerLog)
           /\ instrLog[Len(instrLog)].rec = handlerLog[j].rec
           /\ wpc \in {"return", "done"}
           /\ walkErr = "handler"

\* The handler failed on the 2nd of 3 records and the walk has returned.
C10_Witness ==
    /\ wpc = "done"
    /\ numRefs = 3
    /\ Len(handlerLog) = 2
    /\ handlerLog[2].res = "err"
    /\ handlerLog[2].rec = 2
    /\ walkErr = "handler"

(***************************************************************************)
(* Properties of the reference mutation operations.                        *)
(***************************************************************************)

\* Client w's UpdateRef call happens in this step.
UpdateStepOf(w) == client[w].pc # "done" /\ client'[w].pc = "done"

\* C2: an UpdateRef with a non-empty old value, on a valid reference type
\* and with the git command running normally, fails with ErrNotFound when
\* the reference's current value differs from old; when it equals old the
\* call succeeds and a GetRef of the same reference right after it returns
\* the new value.
C2_CompareAndSwap ==
    [][ \A w \in Clients :
          LET c == client'[w]
              before == GetRef(refs, c.name, c.type, "none")
              after == GetRef(refs', c.name, c.type, "none")
          IN  ( /\ UpdateStepOf(w)
                /\ c.old # ""
                /\ c.fault = "none"
                /\ getRef(c.name, c.type).err = "nil" )
              => IF before.val = c.old
                 THEN c.err = "nil" /\ after = [val |-> c.new, err |-> "nil"]
                 ELSE c.err = "ErrNotFound" ]_vars

\* A client replaced the value "a" of a reference by "b", passing "a" as the
\* old value, and the reference now resolves to "b".
C2_Witness ==
    \E w \in Clients :
        /\ client[w].pc = "done"
        /\ client[w].old = "a"
        /\ client[w].new = "b"
        /\ client[w].fault = "none"
        /\ client[w].err = "nil"
        /\ GetRef(refs, client[w].name, client[w].type, "none")
              = [val |-> "b", err |-> "nil"]

\* Both clients resolved the same reference to the same existing value and
\* then each called UpdateRef on it with that value as the old value, the
\* git commands running normally.
SameObservedOld ==
    LET a == client["w1"]
        b == client["w2"]
    IN  /\ a.pc = "done" /\ b.pc = "done"
        /\ getRef(a.name, a.type).err = "nil"
        /\ getRef(a.name, a.type) = getRef(b.name, b.type)
        /\ a.obs.err = "nil" /\ b.obs.err = "nil"
        /\ a.obs.val = b.obs.val
        /\ a.old = a.obs.val /\ b.old = b.obs.val
        /\ a.fault = "none" /\ b.fault = "none"

ExactlyOneUpdated ==
    {client["w1"].err, client["w2"].err} = {"nil", "ErrNotFound"}

\* C3 as stated: two clients that pass the same observed old value to
\* UpdateRef on the same reference: exactly one succeeds, the other gets
\* ErrNotFound.
C3_ExactlyOneWins == SameObservedOld => ExactlyOneUpdated

\* C3 as amended: the same, for clients whose new values both differ from
\* the observed old value.
C3_ExactlyOneWinsWhenChanging ==
    ( /\ SameObservedOld
      /\ client["w1"].new # client["w1"].old
      /\ client["w2"].new # client["w2"].old )
    => ExactlyOneUpdated

\* Both clients raced from "a" to "b" through different logical names of
\* the same reference; one won.
C3_Witness ==
    /\ SameObservedOld
    /\ client["w1"].old = "a" /\ client["w1"].new = "b"
    /\ client["w2"].old = "a" /\ client["w2"].new = "b"
    /\ client["w1"].type # client["w2"].type
    /\ client["w1"].err = "ErrNotFound"
    /\ client["w2"].err = "nil"

(***************************************************************************)
(* Properties of the status-check report workflow.                         *)
(***************************************************************************)

\* Caller c's call performed the step.
Did(c, step) == \E k \in 1..Len(rep[c].trace) : rep[c].trace[k] = step

\* c1's Report returned a record, then c2 called Report for the same
\* (repository, commit, check UID) and got a record too.
ReportedTwice(c1, c2) ==
    /\ c1 # c2
    /\ rep[c1].pc = "done" /\ rep[c1].seq > 0
    /\ rep[c2].pc = "done" /\ rep[c2].seq > 0
    /\ c1 \in rep[c2].after
    /\ CheckKey(rep[c1].check) = CheckKey(rep[c2].check)

RowsOfKey(key) == {r \in checks : CheckKey(r) = key}

C6_DeniedStopsAtAuthorization ==
    \A c \in Callers :
        (rep[c].pc # "idle" /\ rep[c].auth = "denied")
        => /\ rep[c].pc = "done"
           /\ rep[c].err.class = "AccessDenied"
           /\ rep[c].trace = <<"authorize">>
           /\ rep[c].in = rep[c].in0
           /\ rep[c].check = "none"
           /\ \A r \in checks : r.CreatedBy # c

\* A denied call whose input and commit were otherwise fine.
C6_Witness ==
    \E c \in Callers :
        /\ rep[c].pc = "done"
        /\ rep[c].auth = "denied"
        /\ Validate(rep[c].in0).err.class = "nil"
        /\ rep[c].sha = SHAGood
        /\ rep[c].err.class = "AccessDenied"

\* C7: an authorized Report call whose input violates a validation rule
\* returns a BadRequest error without a commit lookup or an upsert, and
\* leaves the caller's input as it was passed.
C7_InvalidInputUntouched ==
    \A c \in Callers :
        ( /\ rep[c].pc # "idle"
          /\ rep[c].auth = "granted"
          /\ Validate(rep[c].in0).err.class # "nil" )
        => /\ rep[c].pc = "done"
           /\ rep[c].err.class = "BadRequest"
           /\ ~Did(c, "getcommit")
           /\ ~Did(c, "upsert")
           /\ rep[c].in = rep[c].in0

\* C8: a Report call with a commit SHA of invalid format returns an error
\* without having invoked the commit lookup or the upsert.
C8_BadSHANoRoundTrip ==
    \A c \in Callers :
        ( /\ rep[c].pc # "idle"
          /\ ~MatchValidSHA(ToLower(TrimSpace(rep[c].sha))) )
        => /\ rep[c].pc = "done"
           /\ rep[c].err.class # "nil"
           /\ ~Did(c, "getcommit")
           /\ ~Did(c, "upsert")
           /\ rep[c].check = "none"

\* An authorized call with a valid input and the SHA "xyz" was rejected at
\* the SHA check.
C8_Witness ==
    \E c \in Callers :
        /\ rep[c].pc = "done"
        /\ rep[c].sha = SHABad
        /\ rep[c].trace = <<"authorize", "validate", "checksha">>
        /\ rep[c].err = BadRequest("invalid commit SHA provided")

\* C9: a Report call that passes authorization and validation with a
\* well-formed SHA of a commit the backend does not have never reaches the
\* upsert, and returns an error that is neither the invalid-SHA error nor
\* of its class.
C9_MissingCommitDistinctError ==
    \A c \in Callers :
        ( /\ rep[c].pc # "idle"
          /\ rep[c].auth = "granted"
          /\ Validate(rep[c].in0).err.class = "nil"
          /\ MatchValidSHA(ToLower(TrimSpace(rep[c].sha)))
          /\ rep[c].sha \notin ExistingCommits )
        => /\ rep[c].pc \in {"getcommit", "done"}
           /\ ~Did(c, "upsert")
           /\ \A r \in checks : r.CommitSHA # rep[c].sha
           /\ rep[c].pc = "done"
                => /\ rep[c].err.class \notin {"nil", "BadRequest"}
                   /\ rep[c].err # BadRequest("invalid commit SHA provided")
                   /\ rep[c].check = "none"

\* The lookup of a well-formed SHA failed: the commit does not exist.
C9_Witness ==
    \E c \in Callers :
        /\ rep[c].pc = "done"
        /\ rep[c].sha = SHAMissing
        /\ Did(c, "getcommit")
        /\ rep[c].err.class = "NotFound"

(***************************************************************************)
(* Further properties of the walk engine.                                  *)
(***************************************************************************)

C12_StopEndsLoop ==
    \A j \in 1..Len(instrLog) :
        instrLog[j].ins = "Stop"
        => /\ j = Len(instrLog)
           /\ \A h \in 1..Len(handlerLog) :
                  handlerLog[h].rec < instrLog[j].rec
           /\ wpc \in {"finalize", "return", "done"}

\* A finished walk over 3 references: the first was handled, the second got
\* Stop, the third was never shown to the instructor.
C12_Witness ==
    /\ wpc = "done"
    /\ numRefs = 3
    /\ Len(instrLog) = 2
    /\ instrLog[1].ins = "Handle"
    /\ instrLog[2].ins = "Stop"
    /\ Len(handlerLog) = 1
    /\ emitted = 3

\* C13: whenever the producer of a walk fails (non-zero exit), WalkReferences
\* returns the error that carries the command's error and its stderr text.
C13_ProducerFailureIsFatal ==
    (wpc = "done" /\ prodExit = "failed") => walkErr = "producer"

\* The walk left its loop before reading the stream to its end: on a Stop
\* answer, on reaching maxWalkDistance, or with an error of its own.
LoopEndedEarly ==
    \/ Len(instrLog) > 0 /\ instrLog[Len(instrLog)].ins \in {"Stop", "Err"}
    \/ Len(handlerLog) > 0 /\ handlerLog[Len(handlerLog)].res = "err"
    \/ i >= opts.MaxWalkDistance
    \/ walkErr \in {"map", "parse"}

\* C13 (amended): a producer failure is returned, with its stderr text, by
\* every walk that reads the stream up to the failure; only a walk that left
\* its loop earlier returns without it.
C13_ProducerFailureReachesReader ==
    (wpc = "done" /\ prodExit = "failed")
    => (walkErr = "producer" \/ LoopEndedEarly)

\* A record was handled, then the producer failed and the walk returned the
\* producer's error.
C13_Witness ==
    /\ wpc = "done"
    /\ prodExit = "failed"
    /\ walkErr = "producer"
    /\ Len(handlerLog) = 1
    /\ handlerLog[1].res = "ok"
    /\ ~LoopEndedEarly

\* The record ids of a log, in the order of the calls.
RecsOf(log) == [j \in 1..Len(log) |-> log[j].rec]

StrictlyIncreasing(seq) ==
    \A j \in 1..Len(seq) : \A k \in 1..Len(seq) : j < k => seq[j] < seq[k]

\* The last record the instructor decided about (0 before the first).
LastDecided == IF instrLog = <<>> THEN 0 ELSE instrLog[Len(instrLog)].rec

\* C14: records reach the instructor and the handler in the order the
\* producer emitted them (record ids count that order): the handled records
\* are a subsequence of the produced ones, each one a record the instructor
\* answered Handle for, and the parser is at most one record ahead of the
\* last decision.
C14_OrderPreserved ==
    /\ StrictlyIncreasing(RecsOf(instrLog))
    /\ StrictlyIncreasing(RecsOf(handlerLog))
    /\ \A h \in 1..Len(handlerLog) :
         /\ handlerLog[h].rec \in 1..emitted
         /\ \E j \in 1..Len(instrLog) :
              /\ instrLog[j].rec = handlerLog[h].rec
              /\ instrLog[j].ins = "Handle"
    /\ \A j \in 1..Len(instrLog) : instrLog[j].rec \in 1..emitted
    /\ cur <= emitted
    /\ cur - LastDecided \in {0, 1}

\* A finished walk over 3 references whose first and third records were
\* handled and whose second was skipped.
C14_Witness ==
    /\ wpc = "done"
    /\ numRefs = 3
    /\ RecsOf(instrLog) = <<1, 2, 3>>
    /\ instrLog[2].ins = "Skip"
    /\ RecsOf(handlerLog) = <<1, 3>>

\* C15: back-filling the defaults does not change the caller-owned options
\* value: after WalkReferences has returned, the value is as the caller set
\* it (an option left unset is still unset).
C15_CallerOptionsUntouched ==
    wpc = "done" => opts = opts0

(***************************************************************************)
(* Further properties of the reference store.                              *)
(***************************************************************************)

\* Client w's step is a GetRef call.
ResolveStepOf(w) == client[w].pc = "idle" /\ client'[w].pc = "observed"

\* C16: GetRef on a reference that does not exist returns NotFound; on one
\* that exists, its value; a backend failure of any other kind is returned
\* as an error that is not NotFound.
C16_NotFoundOnlyForMissingRef ==
    [][\A w \in Clients :
         ResolveStepOf(w) =>
            LET c == client'[w]
                r == getRef(c.name, c.type)
            IN  r.err = "nil" =>
                  /\ (c.fault = "none" /\ StoreValue(refs, r.path) = "")
                        => c.obs = [val |-> "", err |-> "ErrNotFound"]
                  /\ (c.fault = "none" /\ StoreValue(refs, r.path) # "")
                        => c.obs = [val |-> StoreValue(refs, r.path),
                                    err |-> "nil"]
                  /\ c.fault # "none"
                        => c.obs.err \notin {"nil", "ErrNotFound"}]_vars

\* A client resolved a pull request head that does not exist and got
\* NotFound, and another client's call failed in the backend with an error
\* that is not NotFound.
C16_Witness ==
    \E w \in Clients, v \in Clients :
        /\ client[w].pc = "observed"
        /\ client[w].type = "pullreq-head"
        /\ client[w].fault = "none"
        /\ StoreValue(refs, getRef(client[w].name, client[w].type).path) = ""
        /\ client[w].obs.err = "ErrNotFound"
        /\ client[v].pc = "observed"
        /\ client[v].fault = "exit128"
        /\ client[v].obs.err = "CommandError"

\* C17: an UpdateRef with an empty old value, on a valid reference type and
\* with the git command running normally, is unconditional: whatever the
\* reference's value was (none included), the call succeeds and the
\* reference then resolves to the new value.
C17_EmptyOldIsUnconditional ==
    [][ \A w \in Clients :
          LET c == client'[w]
          IN  ( /\ UpdateStepOf(w)
                /\ c.old = ""
                /\ c.fault = "none"
                /\ getRef(c.name, c.type).err = "nil" )
              => /\ c.err = "nil"
                 /\ GetRef(refs', c.name, c.type, "none")
                       = [val |-> c.new, err |-> "nil"] ]_vars

\* A client resolved a reference to "a" and then set it to "b" with an empty
\* old value; the other client has not acted, so "a" was the value replaced.
C17_Witness ==
    \E w \in Clients :
        /\ client[w].pc = "done"
        /\ client[w].obs = [val |-> "a", err |-> "nil"]
        /\ client[w].old = ""
        /\ client[w].new = "b"
        /\ client[w].fault = "none"
        /\ client[w].err = "nil"
        /\ \A v \in Clients \ {w} : client[v].pc = "idle"
        /\ GetRef(refs, client[w].name, client[w].type, "none")
              = [val |-> "b", err |-> "nil"]

(***************************************************************************)
(* Properties of ReportInput.Validate.                                     *)
(***************************************************************************)

Validated == valpc \in {"validated", "revalidated"}

\* C18: after a successful Validate the input's status holds the sanitized
\* status value, and an input whose status does not sanitize to an allowed
\* value is rejected with BadRequest.
C18_StatusHoldsSanitized ==
    Validated =>
        /\ valRes.err = NoError
              => valRes.in.Status = CheckStatusSanitize(valIn.Status).val
        /\ ~CheckStatusSanitize(valIn.Status).ok
              => valRes.err.class = "BadRequest"

\* The input's payload kind sanitizes to external.
KindIsExternal(in) ==
    LET kind == CheckPayloadKindSanitize(in.Payload.Kind)
    IN  kind.ok /\ kind.val = "external"

\* C19: for an input whose payload kind sanitizes to external, with a valid
\* UID and status: Validate fails with BadRequest when the link is empty,
\* and succeeds, with the payload version cleared and the payload data
\* forced to {}, when it is not.
C19_ExternalNeedsLinkAndClearsPayload ==
    ( /\ Validated
      /\ KindIsExternal(valIn)
      /\ MatchCheckUID(valIn.CheckUID)
      /\ CheckStatusSanitize(valIn.Status).ok )
    => IF valIn.Link = ""
       THEN valRes.err = BadRequest("Link is missing")
       ELSE /\ valRes.err = NoError
            /\ valRes.in.Payload
                  = [Kind |-> "external", Version |-> "", Data |-> "{}"]
            /\ valRes.in.Link = valIn.Link

\* An external check with a link, a version and data was validated: it was
\* accepted and lost its version and data.
C19_Witness ==
    /\ Validated
    /\ valIn.Payload = [Kind |-> "EXTERNAL", Version |-> "v1", Data |-> "blob"]
    /\ valIn.Link # ""
    /\ valRes.err = NoError
    /\ valRes.in.Payload.Version = ""
    /\ valRes.in.Payload.Data = "{}"

\* The shape the check UID rule asks for: 1 to 128 characters, the first a
\* letter or an underscore, the others letters, digits, '-', '_', '.', '$'.
UIDWellFormed(uid) ==
    /\ Len(uid) \in 1..128
    /\ uid[1] \in Letters \cup {"_"}
    /\ \A k \in 2..Len(uid) :
          uid[k] \in Letters \cup Digits \cup {"-", "_", ".", "$"}

UIDErrors ==
    { BadRequest("Status check UID is missing"),
      BadRequest("Status check UID must match the regular expression") }

\* C20: Validate rejects with BadRequest every check UID that is empty,
\* longer than 128 characters or not of the shape, and lets every UID of 1
\* to 128 characters of the shape pass (whatever it then finds in the other
\* fields, it is not the UID it rejects).
C20_UIDRule ==
    Validated =>
        IF UIDWellFormed(valIn.CheckUID)
        THEN valRes.err \notin UIDErrors
        ELSE valRes.err \in UIDErrors

\* A UID of 128 characters was accepted with its input.
C20_Witness ==
    /\ Validated
    /\ Len(valIn.CheckUID) = 128
    /\ UIDWellFormed(valIn.CheckUID)
    /\ valRes.err = NoError

(***************************************************************************)
(* Properties of the SHA value type.                                       *)
(***************************************************************************)

\* The pattern ^[0-9a-f]{4,64}$.
IsHex4to64(str) ==
    /\ Len(str) \in 4..64
    /\ \A k \in 1..Len(str) :
          str[k] \in {"0", "1", "2", "3", "4", "5", "6", "7", "8", "9",
                      "a", "b", "c", "d", "e", "f"}

\* New(raw) has been called.
BuiltByNew == shapc # "ready" /\ shaSrc.kind = "New"

\* C21: New(raw) succeeds exactly when lowercase(trim(raw)) matches
\* ^[0-9a-f]{4,64}$, and the value's String() is then lowercase(trim(raw));
\* for every other input it fails with the invalid-format error and the
\* value returned with the error is the zero value.
C21_ConstructNormalizesOrFails ==
    BuiltByNew =>
        LET norm == ToLower(TrimSpace(shaSrc.raw))
        IN  IF IsHex4to64(norm)
            THEN shaVal.err = "nil" /\ String(shaVal) = norm
            ELSE /\ shaVal.err = "invalid argument"
                 /\ shaVal.str = None.str

\* New was called with upper-case hex digits between white space and
\* returned the trimmed lower-case value.
C21_Witness ==
    /\ BuiltByNew
    /\ shaSrc.raw = <<"\t", "D", "E", "A", "D", " ">>
    /\ shaVal = [str |-> <<"d", "e", "a", "d">>, err |-> "nil"]

\* A value was encoded and the untouched bytes were decoded.
RoundTripDone == shapc = "decoded" /\ ~tampered

\* C22: for every SHA value, the empty value and Nil included, encoding it
\* and decoding the result succeeds and yields an equal value, with the
\* JSON and with the gob encoding.
C22_RoundTrip ==
    RoundTripDone => shaDec.err = "nil" /\ Equal(shaDec, shaVal)

\* C23: decoding re-validates: bytes that hold a string which does not
\* match ^[0-9a-f]{4,64}$ are rejected by the JSON and by the gob decoder,
\* and no decoder returns a SHA holding such a string.
C23_DecodingRevalidates ==
    shapc = "decoded" =>
        LET held == IF wire.codec = "json"
                    THEN JSONUnmarshalString(wire.data)
                    ELSE GobDecodeString(wire)
        IN  /\ (held.ok /\ ~IsHex4to64(held.str)) => shaDec.err # "nil"
            /\ shaDec.err = "nil" => IsHex4to64(shaDec.str)

\* Every character of the string is "0" and there are 4 to 64 of them.
AllZero4to64(str) ==
    Len(str) \in 4..64 /\ \A k \in 1..Len(str) : str[k] = "0"

\* The SHA values of a state: the one built and the one decoded.
ShaValues ==
    (IF shapc # "ready" THEN {shaVal} ELSE {})
    \cup (IF shapc = "decoded" /\ shaDec.err = "nil" THEN {shaDec} ELSE {})

\* C24: Nil and empty are distinct.  New("0000") is nil; the value New("")
\* returns has String() "" and is empty; Nil is not empty; IsNil is true
\* exactly for the all-zero strings of length 4 to 64, so that no value is
\* both nil and empty.
C24_NilAndEmptyDistinct ==
    /\ \A v \in ShaValues :
         /\ IsNil(v) <=> AllZero4to64(String(v))
         /\ IsEmpty(v) <=> Len(String(v)) = 0
         /\ ~(IsNil(v) /\ IsEmpty(v))
    /\ (BuiltByNew /\ shaSrc.raw = <<"0", "0", "0", "0">>) => IsNil(shaVal)
    /\ (BuiltByNew /\ shaSrc.raw = <<>>)
          => String(shaVal) = <<>> /\ IsEmpty(shaVal) /\ ~IsNil(shaVal)
    /\ (shapc # "ready" /\ shaSrc.kind = "Nil")
          => IsNil(shaVal) /\ ~IsEmpty(shaVal)

\* Nil was encoded and decoded again, and the decoded value is nil and not
\* empty.
C24_Witness ==
    /\ shapc = "decoded"
    /\ shaSrc.kind = "Nil"
    /\ shaDec.err = "nil"
    /\ IsNil(shaDec)
    /\ ~IsEmpty(shaDec)
    /\ Len(String(shaDec)) = 40

(***************************************************************************)
(* Properties of the walk engine: Skip and the error classes.              *)
(***************************************************************************)

\* C25: when the instructor returns Skip for a record the handler is not
\* called for that record and the walk goes on: the loop is entered again,
\* and the record parsed next is passed to the instructor.
C25_SkipContinues ==
    /\ [](\A j \in 1..Len(instrLog) :
            instrLog[j].ins = "Skip"
            => /\ \A h \in 1..Len(handlerLog) :
                     handlerLog[h].rec # instrLog[j].rec
               /\ j = Len(instrLog) => wpc # "handle")
    /\ [][ (wpc = "instruct" /\ wpc' # "instruct"
              /\ Len(instrLog') = Len(instrLog) + 1
              /\ instrLog'[Len(instrLog')].ins = "Skip")
           => (wpc' = "loop" /\ i' = i + 1) ]_vars
    /\ [][ (wpc = "loop" /\ wpc' = "instruct") => cur' = LastDecided + 1 ]_vars

\* A finished walk over 3 references: the first record was skipped, the
\* second and third were passed to the instructor and handled.
C25_Witness ==
    /\ wpc = "done"
    /\ numRefs = 3
    /\ Len(instrLog) = 3
    /\ instrLog[1].ins = "Skip"
    /\ RecsOf(handlerLog) = <<2, 3>>
    /\ walkErr = "nil"

\* C26: a parser error ends the walk with an error whose class differs from
\* the class returned for a producer failure and for a handler error: the
\* class of the returned error tells the three causes apart.
C26_ErrorClassesDistinct ==
    wpc = "done" =>
        /\ perr = "parse" => walkErr = "parse"
        /\ WalkError(walkErr).class = WalkError("parse").class
              => perr = "parse"
        /\ WalkError(walkErr).class = WalkError("producer").class
              => perr = "producer"
        /\ WalkError(walkErr).class = WalkError("handler").class
              => (handlerLog # <<>> /\ handlerLog[Len(handlerLog)].res = "err")

(***************************************************************************)
(* Properties of the reference store: commands, mapping and frame.         *)
(***************************************************************************)

\* C27: an UpdateRef call never retries: it runs one update-ref command
\* when its reference type maps to a path (none otherwise), and the
\* command's failure, a compare-and-swap mismatch included, is what the
\* call returns, with the reference left as the single command left it.
C27_UpdateIssuesOneCommand ==
    [][ \A w \in Clients :
          UpdateStepOf(w) =>
             LET c == client'[w]
                 r == getRef(c.name, c.type)
             IN  /\ Len(c.cmds) <= 1
                 /\ r.err = "nil" =>
                      /\ c.cmds = <<UpdateRefArgs(r.path, c.new, c.old)>>
                      /\ LET out == GitUpdateRef(refs, c.cmds[1], c.fault)
                         IN  /\ refs' = out.store
                             /\ c.err = "nil" <=> out.exit = 0
                 /\ (r.err = "nil" /\ c.fault = "none" /\ c.old # ""
                       /\ StoreValue(refs, r.path) # c.old)
                      => c.err = "ErrNotFound" ]_vars

\* A client resolved a reference to "a"; the other client then changed it
\* to "b"; the first client's update from "a" failed with one command run
\* and the reference still holds "b".
C27_Witness ==
    \E w \in Clients, v \in Clients :
        /\ w # v
        /\ client[w].pc = "done"
        /\ client[w].obs = [val |-> "a", err |-> "nil"]
        /\ client[w].old = "a"
        /\ client[w].new = "a"
        /\ client[w].fault = "none"
        /\ client[w].err = "ErrNotFound"
        /\ Len(client[w].cmds) = 1
        /\ client[v].pc = "done"
        /\ client[v].new = "b"
        /\ client[v].err = "nil"
        /\ GetRef(refs, client[w].name, client[w].type, "none")
              = [val |-> "b", err |-> "nil"]

\* The fixed table of physical paths, written out for the references the
\* clients name.
ExpectedPath(name, type) ==
    CASE type = "raw" /\ name = "refs/heads/main" -> "refs/heads/main"
      [] type = "branch" /\ name = "main"         -> "refs/heads/main"
      [] type = "tag" /\ name = "main"            -> "refs/tags/main"
      [] type = "pullreq-head" /\ name = "1"      -> "refs/pullreq/1/head"
      [] type = "pullreq-merge" /\ name = "1"     -> "refs/pullreq/1/merge"
      [] OTHER                                    -> "none"

\* Client w's step is a call of GetRef or of UpdateRef.
CallStepOf(w) == ResolveStepOf(w) \/ UpdateStepOf(w)

\* C28: raw maps a name to itself, branch and tag prepend refs/heads/ and
\* refs/tags/, pull-request head and merge map id to refs/pullreq/<id>/head
\* and refs/pullreq/<id>/merge; GetRef and UpdateRef run their one command
\* on that path, and for any other reference type both return the
\* invalid-argument error without running a command.
C28_ReferencePathMapping ==
    [][ \A w \in Clients :
          CallStepOf(w) =>
             LET c == client'[w]
                 path == ExpectedPath(c.name, c.type)
                 failure == IF ResolveStepOf(w) THEN c.obs.err ELSE c.err
             IN  IF path = "none"
                 THEN /\ failure = "ErrInvalidArgument"
                      /\ c.cmds = <<>>
                      /\ refs' = refs
                 ELSE /\ failure # "ErrInvalidArgument"
                      /\ Len(c.cmds) = 1
                      /\ IF ResolveStepOf(w)
                         THEN c.cmds[1] = <<"show-ref", "--verify", "-s",
                                            "--", path>>
                         ELSE /\ c.cmds[1][1] = "update-ref"
                              /\ c.cmds[1][2] = path ]_vars

\* One client resolved the tag main and the other updated the pull request
\* merge reference, each with a command on the mapped path.
C28_Witness ==
    \E w \in Clients, v \in Clients :
        /\ client[w].pc = "observed"
        /\ client[w].type = "tag"
        /\ client[w].cmds = <<(<<"show-ref", "--verify", "-s", "--",
                                 "refs/tags/main">>)>>
        /\ client[v].pc = "done"
        /\ client[v].type = "pullreq-merge"
        /\ client[v].err = "nil"
        /\ client[v].cmds[1][2] = "refs/pullreq/1/merge"
        /\ refs["refs/pullreq/1/merge"] = client[v].new

\* C29: an UpdateRef that returns an error leaves the reference store
\* unchanged: after a compare-and-swap mismatch, an unknown reference type
\* or a failure of the command, GetRef of every reference returns what it
\* returned before the call.
C29_FailedUpdateChangesNothing ==
    [][ \A w \in Clients :
          (UpdateStepOf(w) /\ client'[w].err # "nil")
          => /\ refs' = refs
             /\ \A t \in RefTargets :
                  GetRef(refs', t.name, t.type, "none")
                     = GetRef(refs, t.name, t.type, "none") ]_vars

\* A client's update of an existing reference failed on its old value, and
\* the reference still resolves to the value the client had observed.
C29_Witness ==
    \E w \in Clients :
        /\ client[w].pc = "done"
        /\ client[w].obs = [val |-> "a", err |-> "nil"]
        /\ client[w].old = "b"
        /\ client[w].new = "b"
        /\ client[w].fault = "none"
        /\ client[w].err = "ErrNotFound"
        /\ \A v \in Clients \ {w} : client[v].pc = "idle"
        /\ GetRef(refs, client[w].name, client[w].type, "none")
              = [val |-> "a", err |-> "nil"]

(***************************************************************************)
(* Properties of Controller.Report: the order of its steps.                *)
(***************************************************************************)

ReportSteps == <<"authorize", "validate", "checksha", "getcommit", "upsert">>

\* The steps of caller c's call so far include the upsert.
Upserted(c) == \E k \in 1..Len(rep[c].trace) : rep[c].trace[k] = "upsert"

\* C30: a Report call invokes the upsert at most once, and only after
\* authorization, Validate, the SHA format check and the commit lookup, in
\* that order, have all succeeded; when the upsert fails Report returns an
\* error and no record, and when it succeeds the record returned carries
\* the call's repository id, commit SHA and check UID.
C30_UpsertOnceAfterAllChecks ==
    \A c \in Callers :
        /\ rep[c].trace = SubSeq(ReportSteps, 1, Len(rep[c].trace))
        /\ Upserted(c) =>
              /\ rep[c].auth = "granted"
              /\ Validate(rep[c].in0).err = NoError
              /\ ValidateCommitSHA(rep[c].sha)
              /\ GetCommit(rep[c].sha) = NoError
              /\ rep[c].pc = "done"
              /\ IF rep[c].err = NoError
                 THEN /\ rep[c].check.RepoID = "repo"
                      /\ rep[c].check.CommitSHA = rep[c].sha
                      /\ rep[c].check.UID = rep[c].in0.CheckUID
                      /\ rep[c].check \in checks
                           \/ \E d \in Callers \ {c} : rep[d].seq > rep[c].seq
                 ELSE rep[c].check = "none"
        /\ (rep[c].pc = "done" /\ ~Upserted(c)) => rep[c].err # NoError

\* One caller's report was stored and returned; the other caller's upsert
\* failed and its call returned an error and no record.
C30_Witness ==
    \E c \in Callers, d \in Callers :
        /\ rep[c].pc = "done"
        /\ rep[c].trace = ReportSteps
        /\ rep[c].err = NoError
        /\ rep[c].check \in checks
        /\ rep[d].pc = "done"
        /\ rep[d].trace = ReportSteps
        /\ rep[d].err.class = "Internal"
        /\ rep[d].check = "none"

(***************************************************************************)
(* Walk distance and the idempotence of Validate.                          *)
(***************************************************************************)

\* The records the instructor answered Skip for.
Skipped == {j \in 1..Len(instrLog) : instrLog[j].ins = "Skip"}

C32_ValidateIdempotent ==
    /\ (valpc = "validated" /\ valRes.err = NoError)
          => Validate(valRes.in) = [err |-> NoError, in |-> valRes.in]
    /\ valpc = "revalidated"
          => /\ valAgain.err = NoError
             /\ valAgain.in = valRes.in

\* An input with the default kind, a version and data was validated twice:
\* the first call changed it, the second succeeded and changed nothing.
C32_Witness ==
    /\ valpc = "revalidated"
    /\ valIn.Payload = [Kind |-> "", Version |-> "v1", Data |-> "blob"]
    /\ valRes.in # valIn
    /\ valRes.in.Payload = [Kind |-> "external", Version |-> "", Data |-> "{}"]
    /\ valAgain = [err |-> NoError, in |-> valRes.in]

====
